---- MODULE Spec2Model ----
(***************************************************************************)
(* Model of the entity consolidation engine (src/apply_rules/object_rule.rs)*)
(* and of the fare import (src/enrich_ntfs_with_farev2.rs).                 *)
(*                                                                         *)
(* Spec      one run of ObjectRule::new followed by ObjectRule::apply_rules *)
(*           on a valid store, optionally followed by a second run of the   *)
(*           same rule set on the resulting store.                          *)
(* SpecFare  one run of merge_fare on a store and a fare archive.           *)
(***************************************************************************)
EXTENDS Naturals, Sequences, FiniteSets

\* ------------------------------------------------------------------------
\* Bounds
\* ------------------------------------------------------------------------
\* number of rules in one rule document, all categories together
MaxRules == 2
\* length of a rule's grouped_from list
MaxGrouped == 2

\* number of rows of ticket_use_perimeters.txt
MaxRows == 2

\* identifiers that may occur in the store and in the rule document
NetworkIds == {"N1", "N2", "N3"}
CommercialModeIds == {"CM1", "CM2"}
PhysicalModeIds == {"PM1", "PM2"}
LineIds == {"L1", "L2"}
VehicleJourneyIds == {"VJ1"}

StopAreaIds == {"SA1"}
\* "X" names a ticket and a ticket use
TicketIds == {"T1", "X"}
TicketUseIds == {"TU1", "X"}

\* a column that is absent from the file or whose value is not a variant of the
\* enum: the row does not deserialize into the record that needs it
Unparsable == "<unparsable>"

\* properties.get(id_key) is None / is not a JSON string
KeyAbsent == "<absent>"
KeyNotString == "<not a string>"

VARIABLES
    networks,               \* collections.networks: the identifiers present
    commercial_modes,       \* collections.commercial_modes
    physical_modes,         \* collections.physical_modes
    lines,                  \* collections.lines: line -> its foreign keys
    vehicle_journeys,       \* collections.vehicle_journeys: vj -> its foreign key
    ticket_use_perimeters,  \* collections.ticket_use_perimeters: sequence of rows
    report,                 \* Report: sequence of entries
    configuration,          \* ObjectRule.configuration
    lines_by_network,       \* ObjectRule.lines_by_network
    lines_by_commercial_mode,
    vjs_by_physical_mode,
    new_networks,           \* local of check_and_apply_networks_rules
    new_commercial_modes,
    new_physical_modes,
    pc,                     \* position of the run
    rule_pos,               \* position of the loop over the category's rules
    result,                 \* what apply_rules returned: "none" while it runs
    run,                    \* 1: first run, 2: same rule set applied again
    start_of_run,           \* the store as it was when the current run began
    stop_areas,             \* collections.stop_areas
    tickets,                \* collections.tickets
    ticket_uses,            \* collections.ticket_uses: ticket use -> record
    ticket_prices,          \* collections.ticket_prices
    ticket_use_restrictions,\* collections.ticket_use_restrictions
    archive,                \* the fare archive: file name -> presence and rows
    local_rows,             \* the local Vec of fill_ticket_use_perimeters/_restrictions
    row_pos,                \* position of the loop over rdr.deserialize()
    report_written          \* fs::write(report_path, ..) has run

store == <<networks, commercial_modes, physical_modes, lines, vehicle_journeys,
           ticket_use_perimeters>>
rule_vars == <<configuration, lines_by_network, lines_by_commercial_mode,
               vjs_by_physical_mode, new_networks, new_commercial_modes,
               new_physical_modes, pc, rule_pos, result, run, start_of_run>>
fare_vars == <<stop_areas, tickets, ticket_uses, ticket_prices, ticket_use_restrictions,
               archive, local_rows, row_pos, report_written>>
vars == <<store, report, rule_vars, fare_vars>>

\* ------------------------------------------------------------------------
\* Helpers
\* ------------------------------------------------------------------------
Range(s) == {s[i] : i \in DOMAIN s}

SeqUpTo(S, n) == UNION {[1..k -> S] : k \in 0..n}

None == [is_some |-> FALSE, v |-> <<>>]
Some(x) == [is_some |-> TRUE, v |-> x]

\* Report::add_error(message, ObjectNotFound); the message is kept as its
\* format and its arguments.
ReportEntry(kind, subject, id) ==
    [category |-> "ObjectNotFound", kind |-> kind, subject |-> subject, id |-> id]

\* Model::get_corresponding_from_idx: the dependents whose foreign key is id
Corresponding(fk, id) == {d \in DOMAIN fk : fk[d] = id}

\* Model::new accepts collections only when the foreign keys of its relations
\* (line -> network, line -> commercial mode, vehicle journey -> physical mode)
\* resolve
ModelValid(nets, cms, pms, ls, vjs) ==
    /\ \A l \in DOMAIN ls : ls[l].network_id \in nets
                            /\ ls[l].commercial_mode_id \in cms
    /\ \A v \in DOMAIN vjs : vjs[v].physical_mode_id \in pms

\* ------------------------------------------------------------------------
\* Inputs: the rule documents
\* ------------------------------------------------------------------------
\* ObjectProperties: properties (the value under the category's key, and whether
\* the whole object deserializes into the entity) and grouped_from
ObjectProperties(ids) ==
    {r \in [properties : [id : ids \cup {KeyAbsent, KeyNotString},
                          deserializable : BOOLEAN],
            grouped_from : SeqUpTo(ids, MaxGrouped)] :
        r.properties.id \in {KeyAbsent, KeyNotString} => r.properties.deserializable}

RuleLists(ids, n) == IF n = 0 THEN {None} ELSE {Some(l) : l \in [1..n -> ObjectProperties(ids)]}

ObjectRuleConfiguration ==
    UNION {[networks_rules : RuleLists(NetworkIds, s[1]),
            commercial_modes_rules : RuleLists(CommercialModeIds, s[2]),
            physical_modes_rules : RuleLists(PhysicalModeIds, s[3])] :
           s \in {t \in [1..3 -> 0..MaxRules] : t[1] + t[2] + t[3] <= MaxRules}}

\* ------------------------------------------------------------------------
\* ObjectRule::new
\* ------------------------------------------------------------------------
\* the HashMap built by filter_map: only identifiers with dependents are keys
IndexOf(collection, fk) ==
    [id \in {c \in collection : Corresponding(fk, c) # {}} |-> Corresponding(fk, id)]

NetworkOfLine == [l \in DOMAIN lines |-> lines[l].network_id]
CommercialModeOfLine == [l \in DOMAIN lines |-> lines[l].commercial_mode_id]
PhysicalModeOfVehicleJourney ==
    [v \in DOMAIN vehicle_journeys |-> vehicle_journeys[v].physical_mode_id]

ObjectRuleNew ==
    /\ pc = "new"
    /\ result = "none"
    /\ lines_by_network' =
          IF configuration.networks_rules.is_some
          THEN Some(IndexOf(networks, NetworkOfLine)) ELSE None
    /\ lines_by_commercial_mode' =
          IF configuration.commercial_modes_rules.is_some
          THEN Some(IndexOf(commercial_modes, CommercialModeOfLine)) ELSE None
    /\ vjs_by_physical_mode' =
          IF configuration.physical_modes_rules.is_some
          THEN Some(IndexOf(physical_modes, PhysicalModeOfVehicleJourney)) ELSE None
    /\ pc' = "networks"
    /\ rule_pos' = 1
    /\ UNCHANGED <<fare_vars, store, report, configuration, new_networks, new_commercial_modes,
                   new_physical_modes, result, run, start_of_run>>

\* ------------------------------------------------------------------------
\* ObjectProperties::check and ObjectProperties::regroup
\* ------------------------------------------------------------------------
\* check without its two ok_or_else: a key that is absent or not a string is
\* taken as the identifier
check_any_key(pyr, id_key, rep) ==
    IF pyr.grouped_from = <<>>
    THEN [err |-> FALSE, id |-> None,
          report |-> Append(rep, ReportEntry("empty_list", id_key, pyr.properties.id))]
    ELSE [err |-> FALSE, id |-> Some(pyr.properties.id), report |-> rep]

\* check without its test of grouped_from: a rule with an empty list is
\* handed to the loop body like any other
check_empty_list_applied(pyr, id_key, rep) ==
    IF pyr.properties.id \in {KeyAbsent, KeyNotString}
    THEN [err |-> TRUE, id |-> None, report |-> rep]
    ELSE [err |-> FALSE, id |-> Some(pyr.properties.id), report |-> rep]

\* Result<Option<&str>> and the report after the call
check(pyr, id_key, rep) ==
    IF pyr.properties.id \in {KeyAbsent, KeyNotString}
    THEN [err |-> TRUE, id |-> None, report |-> rep]
    ELSE IF pyr.grouped_from = <<>>
         THEN [err |-> FALSE, id |-> None,
               report |-> Append(rep, ReportEntry("empty_list", id_key, pyr.properties.id))]
         ELSE [err |-> FALSE, id |-> Some(pyr.properties.id), report |-> rep]

\* The closures given to regroup. st holds what a closure may write: the
\* dependents and the perimeters, plus regroup's own report and changed.
regroup_physical_mode(regroup_id, physical_mode_id, st) ==
    IF regroup_id \in DOMAIN vjs_by_physical_mode.v
    THEN [st EXCEPT
            !.vehicle_journeys =
                [v \in DOMAIN @ |->
                    IF v \in vjs_by_physical_mode.v[regroup_id]
                    THEN [@[v] EXCEPT !.physical_mode_id = physical_mode_id]
                    ELSE @[v]],
            !.changed = TRUE]
    ELSE st

regroup_commercial_mode(regroup_id, commercial_mode_id, st) ==
    IF regroup_id \in DOMAIN lines_by_commercial_mode.v
    THEN [st EXCEPT
            !.lines =
                [l \in DOMAIN @ |->
                    IF l \in lines_by_commercial_mode.v[regroup_id]
                    THEN [@[l] EXCEPT !.commercial_mode_id = commercial_mode_id]
                    ELSE @[l]],
            !.changed = TRUE]
    ELSE st

\* the network closure that writes the target into every line once the
\* identifier has an entry in the index
regroup_network_every_line(regroup_id, network_id, st) ==
    IF regroup_id \in DOMAIN lines_by_network.v
    THEN [st EXCEPT
            !.lines =
                [l \in DOMAIN @ |-> [@[l] EXCEPT !.network_id = network_id]],
            !.ticket_use_perimeters =
                [i \in DOMAIN @ |->
                    IF @[i].object_type = "Network" /\ @[i].object_id = regroup_id
                    THEN [@[i] EXCEPT !.object_id = network_id]
                    ELSE @[i]],
            !.changed = TRUE]
    ELSE st

regroup_network(regroup_id, network_id, st) ==
    IF regroup_id \in DOMAIN lines_by_network.v
    THEN [st EXCEPT
            !.lines =
                [l \in DOMAIN @ |->
                    IF l \in lines_by_network.v[regroup_id]
                    THEN [@[l] EXCEPT !.network_id = network_id]
                    ELSE @[l]],
            !.ticket_use_perimeters =
                [i \in DOMAIN @ |->
                    IF @[i].object_type = "Network" /\ @[i].object_id = regroup_id
                    THEN [@[i] EXCEPT !.object_id = network_id]
                    ELSE @[i]],
            !.changed = TRUE]
    ELSE st

\* closures that answer true for any identifier they are called with, whether
\* or not the reference index has it
closure_true_when_present(category, regroup_id, id, st) ==
    LET after == CASE category = "networks" -> regroup_network(regroup_id, id, st)
                   [] category = "commercial_modes" ->
                         regroup_commercial_mode(regroup_id, id, st)
                   [] category = "physical_modes" ->
                         regroup_physical_mode(regroup_id, id, st)
    IN  [after EXCEPT !.changed = TRUE]

closure(category, regroup_id, id, st) ==
    CASE category = "networks" -> regroup_network(regroup_id, id, st)
      [] category = "commercial_modes" -> regroup_commercial_mode(regroup_id, id, st)
      [] category = "physical_modes" -> regroup_physical_mode(regroup_id, id, st)

\* regroup that skips an identifier absent from the collection without a
\* report entry
RECURSIVE regroup_silent(_, _, _, _, _)
regroup_silent(grouped_from, collection, category, id, st) ==
    IF grouped_from = <<>>
    THEN st
    ELSE LET regroup_id == Head(grouped_from)
             next == IF regroup_id \notin collection
                     THEN st
                     ELSE closure(category, regroup_id, id, st)
         IN  regroup_silent(Tail(grouped_from), collection, category, id, next)

RECURSIVE regroup(_, _, _, _, _)
regroup(grouped_from, collection, category, id, st) ==
    IF grouped_from = <<>>
    THEN st
    ELSE LET regroup_id == Head(grouped_from)
             next == IF regroup_id \notin collection
                     THEN [st EXCEPT !.report =
                              Append(@, ReportEntry("regroup_missing", "", regroup_id))]
                     ELSE closure(category, regroup_id, id, st)
         IN  regroup(Tail(grouped_from), collection, category, id, next)

\* ------------------------------------------------------------------------
\* The body of the loop over a category's rules
\* ------------------------------------------------------------------------
\* the loop body without the retain that follows the if let: the absorbed
\* entities stay in the collection
rule_body_no_retain(pyr, category, id_key, object_name, collection, staged) ==
    LET st0 == [lines |-> lines, vehicle_journeys |-> vehicle_journeys,
                ticket_use_perimeters |-> ticket_use_perimeters,
                report |-> report, changed |-> FALSE]
        chk == check(pyr, id_key, report)
        id == pyr.properties.id
        must_create == id \notin collection
        st1 == regroup(pyr.grouped_from, collection, category, id, st0)
        st2 == IF st1.changed
               THEN st1
               ELSE [st1 EXCEPT !.report =
                        Append(@, ReportEntry("not_applied", object_name, id))]
    IN  IF chk.err
        THEN [err |-> TRUE, collection |-> collection, staged |-> staged, st |-> st0]
        ELSE IF ~chk.id.is_some
             THEN [err |-> FALSE,
                   collection |-> collection,
                   staged |-> staged,
                   st |-> [st0 EXCEPT !.report = chk.report]]
             ELSE IF must_create /\ ~pyr.properties.deserializable
                  THEN [err |-> TRUE, collection |-> collection, staged |-> staged,
                        st |-> st0]
                  ELSE [err |-> FALSE,
                        collection |-> collection,
                        staged |-> IF must_create THEN Append(staged, id) ELSE staged,
                        st |-> st2]

\* the loop body with a retain that keeps the rule's own target
rule_body_retain_spares_target(pyr, category, id_key, object_name, collection, staged) ==
    LET st0 == [lines |-> lines, vehicle_journeys |-> vehicle_journeys,
                ticket_use_perimeters |-> ticket_use_perimeters,
                report |-> report, changed |-> FALSE]
        chk == check(pyr, id_key, report)
        id == pyr.properties.id
        must_create == id \notin collection
        st1 == regroup(pyr.grouped_from, collection, category, id, st0)
        st2 == IF st1.changed
               THEN st1
               ELSE [st1 EXCEPT !.report =
                        Append(@, ReportEntry("not_applied", object_name, id))]
    IN  IF chk.err
        THEN [err |-> TRUE, collection |-> collection, staged |-> staged, st |-> st0]
        ELSE IF ~chk.id.is_some
             THEN [err |-> FALSE,
                   collection |-> collection \ (Range(pyr.grouped_from) \ {id}),
                   staged |-> staged,
                   st |-> [st0 EXCEPT !.report = chk.report]]
             ELSE IF must_create /\ ~pyr.properties.deserializable
                  THEN [err |-> TRUE, collection |-> collection, staged |-> staged,
                        st |-> st0]
                  ELSE [err |-> FALSE,
                        collection |-> collection \ (Range(pyr.grouped_from) \ {id}),
                        staged |-> IF must_create THEN Append(staged, id) ELSE staged,
                        st |-> st2]

\* the loop body that puts a new target into the collection as soon as it
\* is built
rule_body_inserts_at_once(pyr, category, id_key, object_name, collection, staged) ==
    LET st0 == [lines |-> lines, vehicle_journeys |-> vehicle_journeys,
                ticket_use_perimeters |-> ticket_use_perimeters,
                report |-> report, changed |-> FALSE]
        chk == check(pyr, id_key, report)
        id == pyr.properties.id
        must_create == id \notin collection
        st1 == regroup(pyr.grouped_from, collection, category, id, st0)
        st2 == IF st1.changed
               THEN st1
               ELSE [st1 EXCEPT !.report =
                        Append(@, ReportEntry("not_applied", object_name, id))]
    IN  IF chk.err
        THEN [err |-> TRUE, collection |-> collection, staged |-> staged, st |-> st0]
        ELSE IF ~chk.id.is_some
             THEN [err |-> FALSE,
                   collection |-> collection \ Range(pyr.grouped_from),
                   staged |-> staged,
                   st |-> [st0 EXCEPT !.report = chk.report]]
             ELSE IF must_create /\ ~pyr.properties.deserializable
                  THEN [err |-> TRUE, collection |-> collection, staged |-> staged,
                        st |-> st0]
                  ELSE [err |-> FALSE,
                        collection |-> (collection \ Range(pyr.grouped_from)) \cup {id},
                        staged |-> IF must_create THEN Append(staged, id) ELSE staged,
                        st |-> st2]

\* One iteration for the rule pyr. Result: err (the ? operators returned),
\* the collection, the staged entities and the state regroup wrote.
rule_body(pyr, category, id_key, object_name, collection, staged) ==
    LET st0 == [lines |-> lines, vehicle_journeys |-> vehicle_journeys,
                ticket_use_perimeters |-> ticket_use_perimeters,
                report |-> report, changed |-> FALSE]
        chk == check(pyr, id_key, report)
        id == pyr.properties.id
        must_create == id \notin collection
        st1 == regroup(pyr.grouped_from, collection, category, id, st0)
        st2 == IF st1.changed
               THEN st1
               ELSE [st1 EXCEPT !.report =
                        Append(@, ReportEntry("not_applied", object_name, id))]
    IN  IF chk.err
        THEN [err |-> TRUE, collection |-> collection, staged |-> staged, st |-> st0]
        ELSE IF ~chk.id.is_some
             THEN [err |-> FALSE,
                   collection |-> collection \ Range(pyr.grouped_from),
                   staged |-> staged,
                   st |-> [st0 EXCEPT !.report = chk.report]]
             ELSE IF must_create /\ ~pyr.properties.deserializable
                  THEN [err |-> TRUE, collection |-> collection, staged |-> staged,
                        st |-> st0]
                  ELSE [err |-> FALSE,
                        collection |-> collection \ Range(pyr.grouped_from),
                        staged |-> IF must_create THEN Append(staged, id) ELSE staged,
                        st |-> st2]

\* ------------------------------------------------------------------------
\* check_and_apply_networks_rules
\* ------------------------------------------------------------------------
NetworksSkip ==
    /\ pc = "networks"
    /\ result = "none"
    /\ ~configuration.networks_rules.is_some
    /\ pc' = "commercial_modes"
    /\ rule_pos' = 1
    /\ UNCHANGED <<fare_vars, store, report, configuration, lines_by_network,
                   lines_by_commercial_mode, vjs_by_physical_mode, new_networks,
                   new_commercial_modes, new_physical_modes, result, run, start_of_run>>

NetworksRule ==
    /\ pc = "networks"
    /\ result = "none"
    /\ configuration.networks_rules.is_some
    /\ rule_pos \in DOMAIN configuration.networks_rules.v
    /\ LET r == rule_body(configuration.networks_rules.v[rule_pos], "networks",
                          "network_id", "network", networks, new_networks)
       IN  /\ result' = IF r.err THEN "Err" ELSE result
           /\ rule_pos' = IF r.err THEN rule_pos ELSE rule_pos + 1
           /\ networks' = r.collection
           /\ new_networks' = r.staged
           /\ lines' = r.st.lines
           /\ ticket_use_perimeters' = r.st.ticket_use_perimeters
           /\ report' = r.st.report
    /\ UNCHANGED <<fare_vars, commercial_modes, physical_modes, vehicle_journeys, configuration,
                   lines_by_network, lines_by_commercial_mode, vjs_by_physical_mode,
                   new_commercial_modes, new_physical_modes, pc, run, start_of_run>>

\* collections.networks.extend(new_networks): an identifier already present
\* is skipped
NetworksExtend ==
    /\ pc = "networks"
    /\ result = "none"
    /\ configuration.networks_rules.is_some
    /\ rule_pos \notin DOMAIN configuration.networks_rules.v
    /\ networks' = networks \cup Range(new_networks)
    /\ pc' = "commercial_modes"
    /\ rule_pos' = 1
    /\ UNCHANGED <<fare_vars, commercial_modes, physical_modes, lines, vehicle_journeys,
                   ticket_use_perimeters, report, configuration, lines_by_network,
                   lines_by_commercial_mode, vjs_by_physical_mode, new_networks,
                   new_commercial_modes, new_physical_modes, result, run, start_of_run>>

\* ------------------------------------------------------------------------
\* check_and_apply_commercial_modes_rules
\* ------------------------------------------------------------------------
CommercialModesSkip ==
    /\ pc = "commercial_modes"
    /\ result = "none"
    /\ ~configuration.commercial_modes_rules.is_some
    /\ pc' = "physical_modes"
    /\ rule_pos' = 1
    /\ UNCHANGED <<fare_vars, store, report, configuration, lines_by_network,
                   lines_by_commercial_mode, vjs_by_physical_mode, new_networks,
                   new_commercial_modes, new_physical_modes, result, run, start_of_run>>

CommercialModesRule ==
    /\ pc = "commercial_modes"
    /\ result = "none"
    /\ configuration.commercial_modes_rules.is_some
    /\ rule_pos \in DOMAIN configuration.commercial_modes_rules.v
    /\ LET r == rule_body(configuration.commercial_modes_rules.v[rule_pos],
                          "commercial_modes", "commercial_mode_id", "commercial mode",
                          commercial_modes, new_commercial_modes)
       IN  /\ result' = IF r.err THEN "Err" ELSE result
           /\ rule_pos' = IF r.err THEN rule_pos ELSE rule_pos + 1
           /\ commercial_modes' = r.collection
           /\ new_commercial_modes' = r.staged
           /\ lines' = r.st.lines
           /\ report' = r.st.report
    /\ UNCHANGED <<fare_vars, networks, physical_modes, vehicle_journeys, ticket_use_perimeters,
                   configuration, lines_by_network, lines_by_commercial_mode,
                   vjs_by_physical_mode, new_networks, new_physical_modes, pc, run,
                   start_of_run>>

CommercialModesExtend ==
    /\ pc = "commercial_modes"
    /\ result = "none"
    /\ configuration.commercial_modes_rules.is_some
    /\ rule_pos \notin DOMAIN configuration.commercial_modes_rules.v
    /\ commercial_modes' = commercial_modes \cup Range(new_commercial_modes)
    /\ pc' = "physical_modes"
    /\ rule_pos' = 1
    /\ UNCHANGED <<fare_vars, networks, physical_modes, lines, vehicle_journeys,
                   ticket_use_perimeters, report, configuration, lines_by_network,
                   lines_by_commercial_mode, vjs_by_physical_mode, new_networks,
                   new_commercial_modes, new_physical_modes, result, run, start_of_run>>

\* ------------------------------------------------------------------------
\* check_and_apply_physical_modes_rules
\* ------------------------------------------------------------------------
PhysicalModesSkip ==
    /\ pc = "physical_modes"
    /\ result = "none"
    /\ ~configuration.physical_modes_rules.is_some
    /\ pc' = "done"
    /\ result' = "Ok"
    /\ rule_pos' = 1
    /\ UNCHANGED <<fare_vars, store, report, configuration, lines_by_network,
                   lines_by_commercial_mode, vjs_by_physical_mode, new_networks,
                   new_commercial_modes, new_physical_modes, run, start_of_run>>

PhysicalModesRule ==
    /\ pc = "physical_modes"
    /\ result = "none"
    /\ configuration.physical_modes_rules.is_some
    /\ rule_pos \in DOMAIN configuration.physical_modes_rules.v
    /\ LET r == rule_body(configuration.physical_modes_rules.v[rule_pos],
                          "physical_modes", "physical_mode_id", "physical mode",
                          physical_modes, new_physical_modes)
       IN  /\ result' = IF r.err THEN "Err" ELSE result
           /\ rule_pos' = IF r.err THEN rule_pos ELSE rule_pos + 1
           /\ physical_modes' = r.collection
           /\ new_physical_modes' = r.staged
           /\ vehicle_journeys' = r.st.vehicle_journeys
           /\ report' = r.st.report
    /\ UNCHANGED <<fare_vars, networks, commercial_modes, lines, ticket_use_perimeters,
                   configuration, lines_by_network, lines_by_commercial_mode,
                   vjs_by_physical_mode, new_networks, new_commercial_modes, pc, run,
                   start_of_run>>

PhysicalModesExtend ==
    /\ pc = "physical_modes"
    /\ result = "none"
    /\ configuration.physical_modes_rules.is_some
    /\ rule_pos \notin DOMAIN configuration.physical_modes_rules.v
    /\ physical_modes' = physical_modes \cup Range(new_physical_modes)
    /\ pc' = "done"
    /\ result' = "Ok"
    /\ rule_pos' = 1
    /\ UNCHANGED <<fare_vars, networks, commercial_modes, lines, vehicle_journeys,
                   ticket_use_perimeters, report, configuration, lines_by_network,
                   lines_by_commercial_mode, vjs_by_physical_mode, new_networks,
                   new_commercial_modes, new_physical_modes, run, start_of_run>>

\* ------------------------------------------------------------------------
\* A second run of the same rule set on the consolidated store: the model is
\* rebuilt from the collections, the locals and the report start afresh.
\* ------------------------------------------------------------------------
Snapshot == [networks |-> networks, commercial_modes |-> commercial_modes,
             physical_modes |-> physical_modes, lines |-> lines,
             vehicle_journeys |-> vehicle_journeys,
             ticket_use_perimeters |-> ticket_use_perimeters]

RunAgain ==
    /\ pc = "done"
    /\ result = "Ok"
    /\ run = 1
    /\ ModelValid(networks, commercial_modes, physical_modes, lines, vehicle_journeys)
    /\ run' = 2
    /\ result' = "none"
    /\ start_of_run' = Snapshot
    /\ report' = <<>>
    /\ new_networks' = <<>>
    /\ new_commercial_modes' = <<>>
    /\ new_physical_modes' = <<>>
    /\ pc' = "new"
    /\ rule_pos' = 1
    /\ UNCHANGED <<fare_vars, store, configuration, lines_by_network, lines_by_commercial_mode,
                   vjs_by_physical_mode>>

\* ------------------------------------------------------------------------
\* Initial states: a valid store and a rule document
\* ------------------------------------------------------------------------
InitStore ==
    /\ networks = {"N1", "N2"}
    /\ commercial_modes \in {{"CM1"}, {"CM1", "CM2"}}
    /\ physical_modes = {"PM1"}
    /\ lines \in [LineIds -> [network_id : {"N1", "N2"}, commercial_mode_id : {"CM1"}]]
    /\ lines["L1"].network_id = "N1"
    /\ vehicle_journeys = [v \in VehicleJourneyIds |-> [physical_mode_id |-> "PM1"]]
    /\ ticket_use_perimeters =
          <<[ticket_use_id |-> "TU1", object_type |-> "Network", object_id |-> "N2"],
            [ticket_use_id |-> "TU1", object_type |-> "Line", object_id |-> "L1"]>>

Init ==
    /\ InitStore
    /\ configuration \in ObjectRuleConfiguration
    /\ report = <<>>
    /\ lines_by_network = None
    /\ lines_by_commercial_mode = None
    /\ vjs_by_physical_mode = None
    /\ new_networks = <<>>
    /\ new_commercial_modes = <<>>
    /\ new_physical_modes = <<>>
    /\ pc = "new"
    /\ result = "none"
    /\ rule_pos = 1
    /\ run = 1
    /\ start_of_run = Snapshot
    /\ stop_areas = {}
    /\ tickets = {}
    /\ ticket_uses = <<>>
    /\ ticket_prices = <<>>
    /\ ticket_use_restrictions = <<>>
    /\ archive = <<>>
    /\ local_rows = <<>>
    /\ row_pos = 0
    /\ report_written = FALSE

Next ==
    \/ ObjectRuleNew
    \/ NetworksSkip
    \/ NetworksRule
    \/ NetworksExtend
    \/ CommercialModesSkip
    \/ CommercialModesRule
    \/ CommercialModesExtend
    \/ PhysicalModesSkip
    \/ PhysicalModesRule
    \/ PhysicalModesExtend
    \/ RunAgain

Spec == Init /\ [][Next]_vars

\* ------------------------------------------------------------------------
\* The fare import: merge_fare and read_farev2
\* ------------------------------------------------------------------------
rules_idle == <<commercial_modes, physical_modes, vehicle_journeys, networks, lines,
                stop_areas, configuration, lines_by_network, lines_by_commercial_mode,
                vjs_by_physical_mode, new_networks, new_commercial_modes,
                new_physical_modes, rule_pos, run, start_of_run, archive>>

\* ZipHandler::get_file_if_exists: the reader, if the archive has the file
get_file_if_exists(file_name) == archive[file_name]

\* csv + serde: a row deserializes into a TicketUsePerimeter when its
\* object_type column holds a variant of ObjectType
DeserializesAsPerimeter(row) == row.object_type # Unparsable

TicketUsePerimeterOf(row) ==
    [ticket_use_id |-> row.ticket_use_id, object_type |-> row.object_type,
     object_id |-> row.object_id]

\* csv + serde: a row deserializes into a TicketUseRestriction when its
\* restriction_type column holds a variant of RestrictionType
DeserializesAsRestriction(row) == row.restriction_type # Unparsable

TicketUseRestrictionOf(row) ==
    [ticket_use_id |-> row.ticket_use_id, restriction_type |-> row.restriction_type,
     use_origin |-> row.use_origin, use_destination |-> row.use_destination]

\* fill_collection_with_id(zip_handler, "tickets.txt")
ReadTickets ==
    /\ pc = "tickets"
    /\ result = "none"
    /\ IF get_file_if_exists("tickets.txt").present
       THEN /\ tickets' = Range(get_file_if_exists("tickets.txt").rows)
            /\ pc' = "ticket_uses"
            /\ UNCHANGED result
       ELSE /\ result' = "Err"
            /\ UNCHANGED <<tickets, pc>>
    /\ UNCHANGED <<rules_idle, ticket_uses, ticket_prices, ticket_use_perimeters,
                   ticket_use_restrictions, report, local_rows, row_pos,
                   report_written>>

\* fill_collection_with_id(zip_handler, "ticket_uses.txt")
ReadTicketUses ==
    /\ pc = "ticket_uses"
    /\ result = "none"
    /\ IF get_file_if_exists("ticket_uses.txt").present
       THEN /\ ticket_uses' =
                  LET rows == get_file_if_exists("ticket_uses.txt").rows
                  IN  [id \in {rows[k].id : k \in DOMAIN rows} |->
                          CHOOSE r \in Range(rows) : r.id = id]
            /\ pc' = "ticket_prices"
            /\ UNCHANGED result
       ELSE /\ result' = "Err"
            /\ UNCHANGED <<ticket_uses, pc>>
    /\ UNCHANGED <<rules_idle, tickets, ticket_prices, ticket_use_perimeters,
                   ticket_use_restrictions, report, local_rows, row_pos,
                   report_written>>

\* fill_collection(zip_handler, "ticket_prices.txt")
ReadTicketPrices ==
    /\ pc = "ticket_prices"
    /\ result = "none"
    /\ IF get_file_if_exists("ticket_prices.txt").present
       THEN /\ ticket_prices' = get_file_if_exists("ticket_prices.txt").rows
            /\ pc' = "ticket_use_perimeters"
            /\ UNCHANGED result
       ELSE /\ result' = "Err"
            /\ UNCHANGED <<ticket_prices, pc>>
    /\ row_pos' = 0
    /\ UNCHANGED <<rules_idle, tickets, ticket_uses, ticket_use_perimeters,
                   ticket_use_restrictions, report, local_rows, report_written>>

\* fill_ticket_use_perimeters: the match on the reader
FillPerimetersOpen ==
    /\ pc = "ticket_use_perimeters"
    /\ result = "none"
    /\ row_pos = 0
    /\ IF get_file_if_exists("ticket_use_perimeters.txt").present
       THEN /\ local_rows' = <<>>
            /\ row_pos' = 1
            /\ UNCHANGED result
       ELSE /\ result' = "Err"
            /\ UNCHANGED <<local_rows, row_pos>>
    /\ UNCHANGED <<rules_idle, tickets, ticket_uses, ticket_prices,
                   ticket_use_perimeters, ticket_use_restrictions, report, pc,
                   report_written>>

\* one iteration of the loop of fill_ticket_use_perimeters on a deserialized
\* record: the local Vec and the report after it
perimeter_row(ticket_use_perimeter, local, rep) ==
    CASE ticket_use_perimeter.object_type = "Network" ->
            IF ticket_use_perimeter.object_id \in networks
            THEN [local |-> local,
                  report |-> Append(rep, ReportEntry("network_id_not_found", "",
                                                     ticket_use_perimeter.object_id))]
            ELSE [local |-> Append(local, ticket_use_perimeter), report |-> rep]
      [] ticket_use_perimeter.object_type = "Line" ->
            [local |-> local, report |-> rep]
      [] OTHER ->
            IF ticket_use_perimeter.object_id \in DOMAIN lines
            THEN [local |-> local,
                  report |-> Append(rep, ReportEntry("line_id_not_found", "",
                                                     ticket_use_perimeter.object_id))]
            ELSE [local |-> Append(local, ticket_use_perimeter), report |-> rep]

FillPerimetersRow ==
    /\ pc = "ticket_use_perimeters"
    /\ result = "none"
    /\ row_pos \in DOMAIN get_file_if_exists("ticket_use_perimeters.txt").rows
    /\ LET row == get_file_if_exists("ticket_use_perimeters.txt").rows[row_pos]
           r == perimeter_row(TicketUsePerimeterOf(row), local_rows, report)
       IN  IF DeserializesAsPerimeter(row)
           THEN local_rows' = r.local /\ report' = r.report
           ELSE UNCHANGED <<local_rows, report>>
    /\ row_pos' = row_pos + 1
    /\ UNCHANGED <<rules_idle, tickets, ticket_uses, ticket_prices,
                   ticket_use_perimeters, ticket_use_restrictions, pc, result,
                   report_written>>

\* Ok(Collection::new(ticket_use_perimeters)), assigned by read_farev2
FillPerimetersReturn ==
    /\ pc = "ticket_use_perimeters"
    /\ result = "none"
    /\ row_pos = Len(get_file_if_exists("ticket_use_perimeters.txt").rows) + 1
    /\ ticket_use_perimeters' = local_rows
    /\ pc' = "ticket_use_restrictions"
    /\ row_pos' = 0
    /\ local_rows' = <<>>
    /\ UNCHANGED <<rules_idle, tickets, ticket_uses, ticket_prices,
                   ticket_use_restrictions, report, result, report_written>>

\* the file name read_farev2 gives to fill_ticket_use_restrictions
RestrictionsFileName == "ticket_use_perimeters.txt"

\* fill_ticket_use_restrictions: the match on the reader; a missing file is
\* an empty collection
FillRestrictionsOpen ==
    /\ pc = "ticket_use_restrictions"
    /\ result = "none"
    /\ row_pos = 0
    /\ IF get_file_if_exists(RestrictionsFileName).present
       THEN /\ row_pos' = 1
            /\ UNCHANGED <<ticket_use_restrictions, pc>>
       ELSE /\ ticket_use_restrictions' = <<>>
            /\ pc' = "sanitize_tickets"
            /\ UNCHANGED row_pos
    /\ local_rows' = <<>>
    /\ UNCHANGED <<rules_idle, tickets, ticket_uses, ticket_prices,
                   ticket_use_perimeters, report, result, report_written>>

\* the loop body without the continue after the origin's entry: the
\* destination is looked up as well
restriction_row_no_continue(ticket_use_restriction, local, rep) ==
    LET origin_missing == ticket_use_restriction.use_origin \notin stop_areas
        destination_missing == ticket_use_restriction.use_destination \notin stop_areas
        rep1 == IF origin_missing
                THEN Append(rep, ReportEntry("origin_not_found", "",
                                             ticket_use_restriction.use_origin))
                ELSE rep
        rep2 == IF destination_missing
                THEN Append(rep1, ReportEntry("destination_not_found", "",
                                              ticket_use_restriction.use_destination))
                ELSE rep1
    IN  IF ticket_use_restriction.restriction_type = "OriginDestination"
        THEN IF origin_missing \/ destination_missing
             THEN [local |-> local, report |-> rep2]
             ELSE [local |-> Append(local, ticket_use_restriction), report |-> rep]
        ELSE [local |-> Append(local, ticket_use_restriction), report |-> rep]

\* one iteration of the loop of fill_ticket_use_restrictions on a deserialized
\* record
restriction_row(ticket_use_restriction, local, rep) ==
    IF ticket_use_restriction.restriction_type = "OriginDestination"
    THEN IF ticket_use_restriction.use_origin \notin stop_areas
         THEN [local |-> local,
               report |-> Append(rep, ReportEntry("origin_not_found", "",
                                                  ticket_use_restriction.use_origin))]
         ELSE IF ticket_use_restriction.use_destination \notin stop_areas
              THEN [local |-> local,
                    report |-> Append(rep, ReportEntry("destination_not_found", "",
                                          ticket_use_restriction.use_destination))]
              ELSE [local |-> Append(local, ticket_use_restriction), report |-> rep]
    ELSE [local |-> Append(local, ticket_use_restriction), report |-> rep]

FillRestrictionsRow ==
    /\ pc = "ticket_use_restrictions"
    /\ result = "none"
    /\ row_pos \in DOMAIN get_file_if_exists(RestrictionsFileName).rows
    /\ LET row == get_file_if_exists(RestrictionsFileName).rows[row_pos]
           r == restriction_row(TicketUseRestrictionOf(row), local_rows, report)
       IN  IF DeserializesAsRestriction(row)
           THEN local_rows' = r.local /\ report' = r.report
           ELSE UNCHANGED <<local_rows, report>>
    /\ row_pos' = row_pos + 1
    /\ UNCHANGED <<rules_idle, tickets, ticket_uses, ticket_prices,
                   ticket_use_perimeters, ticket_use_restrictions, pc, result,
                   report_written>>

FillRestrictionsReturn ==
    /\ pc = "ticket_use_restrictions"
    /\ result = "none"
    /\ row_pos = Len(get_file_if_exists(RestrictionsFileName).rows) + 1
    /\ ticket_use_restrictions' = local_rows
    /\ pc' = "sanitize_tickets"
    /\ row_pos' = 0
    /\ local_rows' = <<>>
    /\ UNCHANGED <<rules_idle, tickets, ticket_uses, ticket_prices,
                   ticket_use_perimeters, report, result, report_written>>

\* sanitize_tickets: the ticket_use_id of every perimeter and restriction, and
\* the prices whose ticket_id is among them
sanitize_tickets(prices, perimeters, restrictions) ==
    LET ticket_ids == {perimeters[i].ticket_use_id : i \in DOMAIN perimeters}
                        \cup {restrictions[i].ticket_use_id : i \in DOMAIN restrictions}
        Retained(ticket) == ticket.ticket_id \in ticket_ids
    IN  SelectSeq(prices, Retained)

SanitizeTickets ==
    /\ pc = "sanitize_tickets"
    /\ result = "none"
    /\ ticket_prices' = sanitize_tickets(ticket_prices, ticket_use_perimeters,
                                         ticket_use_restrictions)
    /\ pc' = "write_report"
    /\ UNCHANGED <<rules_idle, tickets, ticket_uses, ticket_use_perimeters,
                   ticket_use_restrictions, report, result, local_rows, row_pos,
                   report_written>>

\* merge_fare after read_farev2: the report is written, the model is built
MergeFareReturn ==
    /\ pc = "write_report"
    /\ result = "none"
    /\ report_written' = TRUE
    /\ result' = IF ModelValid(networks, commercial_modes, physical_modes, lines,
                               vehicle_journeys)
                 THEN "Ok" ELSE "Err"
    /\ pc' = "done"
    /\ UNCHANGED <<rules_idle, tickets, ticket_uses, ticket_prices,
                   ticket_use_perimeters, ticket_use_restrictions, report, local_rows,
                   row_pos>>

\* ------------------------------------------------------------------------
\* Initial states of the fare import: a store and an archive
\* ------------------------------------------------------------------------
PerimeterRows ==
    [ticket_use_id : TicketUseIds, object_type : {"Network", "Line", "StopArea"},
     object_id : {"N1", "L1", "X9"}, restriction_type : {Unparsable},
     use_origin : {""}, use_destination : {""}]

RestrictionRows ==
    [ticket_use_id : TicketUseIds, object_type : {Unparsable}, object_id : {""},
     restriction_type : {"OriginDestination", "Zone"},
     use_origin : {"SA1", "SA9"}, use_destination : {"SA1", "SA9"}]

UnparsableRow ==
    [ticket_use_id |-> "TU1", object_type |-> Unparsable, object_id |-> "",
     restriction_type |-> Unparsable, use_origin |-> "", use_destination |-> ""]

File(rows) == [present |-> TRUE, rows |-> rows]
NoFile == [present |-> FALSE, rows |-> <<>>]

TicketsFile == File(<<"T1", "X">>)
TicketUsesFile == File(<<[id |-> "TU1", ticket_id |-> "T1"],
                         [id |-> "X", ticket_id |-> "T1"]>>)
TicketPricesFile == File(<<[ticket_id |-> "T1"], [ticket_id |-> "X"]>>)

PerimetersFiles ==
    {File(rows) : rows \in SeqUpTo(PerimeterRows \cup RestrictionRows \cup {UnparsableRow},
                                   MaxRows)}

RestrictionsFiles ==
    {NoFile, File(<<>>),
     File(<<[ticket_use_id |-> "TU1", object_type |-> Unparsable, object_id |-> "",
             restriction_type |-> "Zone", use_origin |-> "", use_destination |-> ""]>>)}

FileNames == {"tickets.txt", "ticket_uses.txt", "ticket_prices.txt",
              "ticket_use_perimeters.txt", "ticket_use_restrictions.txt"}

FullArchive(perimeters, restrictions) ==
    [f \in FileNames |->
        CASE f = "tickets.txt" -> TicketsFile
          [] f = "ticket_uses.txt" -> TicketUsesFile
          [] f = "ticket_prices.txt" -> TicketPricesFile
          [] f = "ticket_use_perimeters.txt" -> perimeters
          [] f = "ticket_use_restrictions.txt" -> restrictions]

\* every file present, or exactly one of the first four missing
Archives ==
    {FullArchive(p, r) : p \in PerimetersFiles, r \in RestrictionsFiles}
      \cup {[FullArchive(File(<<>>), r) EXCEPT ![f] = NoFile] :
               f \in FileNames \ {"ticket_use_restrictions.txt"},
               r \in RestrictionsFiles}

InitFare ==
    /\ networks = {"N1", "N2"}
    /\ commercial_modes = {"CM1"}
    /\ physical_modes = {"PM1"}
    /\ lines = [l \in LineIds |-> [network_id |-> "N1", commercial_mode_id |-> "CM1"]]
    /\ vehicle_journeys = [v \in VehicleJourneyIds |-> [physical_mode_id |-> "PM1"]]
    /\ stop_areas = StopAreaIds
    /\ ticket_use_perimeters = <<>>
    /\ ticket_use_restrictions = <<>>
    /\ tickets = {}
    /\ ticket_uses = <<>>
    /\ ticket_prices = <<>>
    /\ archive \in Archives
    /\ report = <<>>
    /\ report_written = FALSE
    /\ local_rows = <<>>
    /\ row_pos = 0
    /\ pc = "tickets"
    /\ result = "none"
    /\ configuration = [networks_rules |-> None, commercial_modes_rules |-> None,
                        physical_modes_rules |-> None]
    /\ lines_by_network = None
    /\ lines_by_commercial_mode = None
    /\ vjs_by_physical_mode = None
    /\ new_networks = <<>>
    /\ new_commercial_modes = <<>>
    /\ new_physical_modes = <<>>
    /\ rule_pos = 1
    /\ run = 1
    /\ start_of_run = Snapshot

NextFare ==
    \/ ReadTickets
    \/ ReadTicketUses
    \/ ReadTicketPrices
    \/ FillPerimetersOpen
    \/ FillPerimetersRow
    \/ FillPerimetersReturn
    \/ FillRestrictionsOpen
    \/ FillRestrictionsRow
    \/ FillRestrictionsReturn
    \/ SanitizeTickets
    \/ MergeFareReturn

SpecFare == InitFare /\ [][NextFare]_vars

\* ------------------------------------------------------------------------
\* Vocabulary of the properties
\* ------------------------------------------------------------------------
Categories == {"networks", "commercial_modes", "physical_modes"}

RulesOf(cat) ==
    CASE cat = "networks" -> configuration.networks_rules
      [] cat = "commercial_modes" -> configuration.commercial_modes_rules
      [] cat = "physical_modes" -> configuration.physical_modes_rules

CollectionOf(cat) ==
    CASE cat = "networks" -> networks
      [] cat = "commercial_modes" -> commercial_modes
      [] cat = "physical_modes" -> physical_modes

StartCollectionOf(cat) ==
    CASE cat = "networks" -> start_of_run.networks
      [] cat = "commercial_modes" -> start_of_run.commercial_modes
      [] cat = "physical_modes" -> start_of_run.physical_modes

StagedOf(cat) ==
    CASE cat = "networks" -> new_networks
      [] cat = "commercial_modes" -> new_commercial_modes
      [] cat = "physical_modes" -> new_physical_modes

\* the foreign key a category's rules rewrite, per dependent
FkOf(cat) ==
    CASE cat = "networks" -> NetworkOfLine
      [] cat = "commercial_modes" -> CommercialModeOfLine
      [] cat = "physical_modes" -> PhysicalModeOfVehicleJourney

ReferenceIndexOf(cat) ==
    CASE cat = "networks" -> lines_by_network.v
      [] cat = "commercial_modes" -> lines_by_commercial_mode.v
      [] cat = "physical_modes" -> vjs_by_physical_mode.v

ObjectNameOf(cat) ==
    CASE cat = "networks" -> "network"
      [] cat = "commercial_modes" -> "commercial mode"
      [] cat = "physical_modes" -> "physical mode"

\* the position of a category in apply_rules
OrderOf(p) ==
    CASE p = "new" -> 0
      [] p = "networks" -> 1
      [] p = "commercial_modes" -> 2
      [] p = "physical_modes" -> 3
      [] p = "done" -> 4

\* the pass of the category has run to its end (its staged entities inserted)
PassFinished(cat) == RulesOf(cat).is_some /\ OrderOf(pc) > OrderOf(cat)

\* the next step is the loop body for the rule at rule_pos of the category
AtRule(cat) ==
    /\ result = "none"
    /\ pc = cat
    /\ RulesOf(cat).is_some
    /\ rule_pos \in DOMAIN RulesOf(cat).v

CurrentRule(cat) == RulesOf(cat).v[rule_pos]

Malformed(pyr) == pyr.properties.id \in {KeyAbsent, KeyNotString}

\* the next step is a loop body that reaches regroup: the key is a string, the
\* list is not empty and the target exists or could be built
Regrouping(cat) ==
    /\ AtRule(cat)
    /\ ~Malformed(CurrentRule(cat))
    /\ CurrentRule(cat).grouped_from # <<>>
    /\ \/ CurrentRule(cat).properties.id \in CollectionOf(cat)
       \/ CurrentRule(cat).properties.deserializable

\* the identifiers of a list that are not in the collection, in list order
MissingIn(grouped_from, collection) ==
    LET Absent(x) == x \notin collection IN SelectSeq(grouped_from, Absent)

\* the entries the step added to the report
NewEntries == SubSeq(report', Len(report) + 1, Len(report'))

EntriesOfKind(entries, kind) ==
    LET IsKind(e) == e.kind = kind IN SelectSeq(entries, IsKind)

\* ------------------------------------------------------------------------
\* C1  Referential integrity after consolidation: when apply_rules has
\*     returned Ok on a store whose foreign keys all resolved, every
\*     Line.network_id, Line.commercial_mode_id, VehicleJourney.physical_mode_id
\*     and Network-typed TicketUsePerimeter.object_id still resolves.
\* ------------------------------------------------------------------------
C1_ReferentialIntegrity ==
    (run = 1 /\ result = "Ok") =>
        /\ \A l \in DOMAIN lines : /\ lines[l].network_id \in networks
                                   /\ lines[l].commercial_mode_id \in commercial_modes
        /\ \A v \in DOMAIN vehicle_journeys :
              vehicle_journeys[v].physical_mode_id \in physical_modes
        /\ \A i \in DOMAIN ticket_use_perimeters :
              ticket_use_perimeters[i].object_type = "Network"
                  => ticket_use_perimeters[i].object_id \in networks

\* ------------------------------------------------------------------------
\* C2  Every identifier of an absorption list that was in the collection
\*     before the pass is absent from it once the category pass has finished,
\*     staged entities inserted.
\* ------------------------------------------------------------------------
C2_AbsorbedAbsent ==
    \A cat \in Categories :
        (run = 1 /\ PassFinished(cat)) =>
            \A k \in DOMAIN RulesOf(cat).v :
                \A id \in Range(RulesOf(cat).v[k].grouped_from) :
                    id \in StartCollectionOf(cat) => id \notin CollectionOf(cat)

\* ------------------------------------------------------------------------
\* C4  Idempotence: a second run of the same rule set on the consolidated
\*     store leaves every collection as the first run left it, and its report
\*     holds only "identifier to regroup doesn't exist" and "rule was not
\*     applied" entries.
\* ------------------------------------------------------------------------
C4_Idempotent ==
    (run = 2 /\ result = "Ok") =>
        /\ Snapshot = start_of_run
        /\ \A i \in DOMAIN report : report[i].kind \in {"regroup_missing", "not_applied"}

\* ------------------------------------------------------------------------
\* C5  Repointing: when a rule with target T absorbs an identifier A present
\*     in the collection, every dependent whose foreign key was A when the
\*     rule started has foreign key T after the rule.
\* ------------------------------------------------------------------------
C5_Repointing ==
    [][\A cat \in Categories :
          Regrouping(cat) =>
              \A A \in Range(CurrentRule(cat).grouped_from) \cap CollectionOf(cat) :
                  \A d \in DOMAIN FkOf(cat) :
                      FkOf(cat)[d] = A
                          => FkOf(cat)'[d] = CurrentRule(cat).properties.id]_vars

\* ------------------------------------------------------------------------
\* C8  A network rule with target T that absorbs an identifier A present in
\*     the Network collection leaves every Network-typed TicketUsePerimeter
\*     that had object_id A with object_id T, whether or not a Line
\*     references A.
\* ------------------------------------------------------------------------
C8_PerimetersRepointed ==
    [][Regrouping("networks") =>
          \A A \in Range(CurrentRule("networks").grouped_from) \cap networks :
              \A i \in DOMAIN ticket_use_perimeters :
                  (/\ ticket_use_perimeters[i].object_type = "Network"
                   /\ ticket_use_perimeters[i].object_id = A)
                      => ticket_use_perimeters'[i].object_id =
                             CurrentRule("networks").properties.id]_vars

\* what C9 asks of one loop body of the category that reaches regroup
C9_Step(cat) ==
    LET pyr == CurrentRule(cat)
        id == pyr.properties.id
        collection == CollectionOf(cat)
        missing == MissingIn(pyr.grouped_from, collection)
        missing_entries ==
            [k \in 1..Len(missing) |-> ReportEntry("regroup_missing", "", missing[k])]
    IN  /\ Len(report') >= Len(report)
        /\ SubSeq(report', 1, Len(report)) = report
        /\ EntriesOfKind(NewEntries, "regroup_missing") = missing_entries
        /\ \A d \in DOMAIN FkOf(cat) :
              FkOf(cat)'[d] # FkOf(cat)[d] =>
                  \E A \in Range(pyr.grouped_from) \cap collection :
                      /\ A \in DOMAIN ReferenceIndexOf(cat)
                      /\ d \in ReferenceIndexOf(cat)[A]
        /\ \A i \in DOMAIN ticket_use_perimeters :
              ticket_use_perimeters'[i] # ticket_use_perimeters[i] =>
                  ticket_use_perimeters[i].object_id
                      \in Range(pyr.grouped_from) \cap collection
        /\ result' = "none" /\ pc' = pc /\ rule_pos' = rule_pos + 1
        /\ Len(missing) = Len(pyr.grouped_from) =>
              /\ NewEntries = Append(missing_entries,
                                     ReportEntry("not_applied", ObjectNameOf(cat), id))
              /\ StagedOf(cat)' = IF id \in collection
                                  THEN StagedOf(cat)
                                  ELSE Append(StagedOf(cat), id)
              /\ lines' = lines
              /\ vehicle_journeys' = vehicle_journeys
              /\ ticket_use_perimeters' = ticket_use_perimeters

\* ------------------------------------------------------------------------
\* C9  A missing absorption identifier is a soft error. In a loop body that
\*     reaches regroup: each list element that is not in the collection adds
\*     exactly one "identifier to regroup doesn't exist" entry, in list order;
\*     a dependent or a perimeter is rewritten only on account of an element
\*     that is in the collection; the loop goes on to the next rule. When every
\*     element is missing, the added entries are those followed by one "rule
\*     was not applied" entry, the target is staged if it was not in the
\*     collection, and no Line or VehicleJourney is modified.
\* ------------------------------------------------------------------------
C9_MissingIsSoft ==
    [][\A cat \in Categories : Regrouping(cat) => C9_Step(cat)]_vars

\* a first rule of the networks pass whose identifiers were all missing has
\* been processed: two report entries for it and its new target staged
C9_Witness ==
    /\ run = 1
    /\ pc = "networks"
    /\ result = "none"
    /\ rule_pos = 2
    /\ LET pyr == configuration.networks_rules.v[1]
       IN  /\ pyr.grouped_from = <<"N3">>
           /\ pyr.properties.id = "N3"
           /\ report = <<ReportEntry("regroup_missing", "", "N3"),
                         ReportEntry("not_applied", "network", "N3")>>
           /\ new_networks = <<"N3">>
           /\ networks = {"N1", "N2"}

\* ------------------------------------------------------------------------
\* C10 A rule whose key field is absent or not a string is a hard error:
\*     the loop body returns Err and changes neither the store, the report
\*     nor the staged entities; after Err nothing runs any more, so no later
\*     rule and no later category is processed and the entities staged by
\*     earlier rules are not in the collection.
\* ------------------------------------------------------------------------
C10_HardError ==
    [][/\ \A cat \in Categories :
             (AtRule(cat) /\ Malformed(CurrentRule(cat))) =>
                 /\ result' = "Err"
                 /\ UNCHANGED <<store, report, new_networks, new_commercial_modes,
                                new_physical_modes, pc, rule_pos>>
                 /\ Range(StagedOf(cat)') \cap CollectionOf(cat)' = {}
       /\ result = "Err" => UNCHANGED vars]_vars

\* the second rule of the networks pass is malformed and the run has stopped
\* there, the target staged by the first rule left out of the collection
C10_Witness ==
    /\ result = "Err"
    /\ pc = "networks"
    /\ rule_pos = 2
    /\ Malformed(configuration.networks_rules.v[2])
    /\ new_networks = <<"N3">>
    /\ "N3" \notin networks
    /\ report # <<>>

\* ------------------------------------------------------------------------
\* Vocabulary of the fare properties
\* ------------------------------------------------------------------------
\* the next step is the loop body of fill_ticket_use_perimeters on a row that
\* deserializes
AtPerimeterRecord ==
    /\ pc = "ticket_use_perimeters"
    /\ result = "none"
    /\ row_pos \in DOMAIN archive["ticket_use_perimeters.txt"].rows
    /\ DeserializesAsPerimeter(archive["ticket_use_perimeters.txt"].rows[row_pos])

CurrentPerimeter ==
    TicketUsePerimeterOf(archive["ticket_use_perimeters.txt"].rows[row_pos])

\* the next step is the loop body of fill_ticket_use_restrictions on a row
\* that deserializes
AtRestrictionRecord ==
    /\ pc = "ticket_use_restrictions"
    /\ result = "none"
    /\ row_pos \in DOMAIN archive[RestrictionsFileName].rows
    /\ DeserializesAsRestriction(archive[RestrictionsFileName].rows[row_pos])

CurrentRestriction ==
    TicketUseRestrictionOf(archive[RestrictionsFileName].rows[row_pos])

\* sanitize_tickets has returned
Sanitized == pc \in {"write_report", "done"}

\* ------------------------------------------------------------------------
\* C3  Pruning law: once sanitize_tickets has returned, a TicketPrice row of
\*     ticket_prices.txt is in ticket_prices if and only if its ticket_id is
\*     the ticket_id of a TicketUse whose identifier is the ticket_use_id of a
\*     surviving TicketUsePerimeter or TicketUseRestriction.
\* ------------------------------------------------------------------------
C3_PruningLaw ==
    Sanitized =>
        \A k \in DOMAIN archive["ticket_prices.txt"].rows :
            LET price == archive["ticket_prices.txt"].rows[k]
                surviving ==
                    {ticket_use_perimeters[i].ticket_use_id :
                        i \in DOMAIN ticket_use_perimeters}
                      \cup {ticket_use_restrictions[i].ticket_use_id :
                              i \in DOMAIN ticket_use_restrictions}
            IN  (price \in Range(ticket_prices))
                  <=> \E tu \in DOMAIN ticket_uses :
                          /\ ticket_uses[tu].ticket_id = price.ticket_id
                          /\ tu \in surviving

\* ------------------------------------------------------------------------
\* C6  Fare perimeter cross-validation: a TicketUsePerimeter record is kept
\*     if and only if its object_id is in the Network collection (object_type
\*     Network) or in the Line collection (any other object_type); a record
\*     that is not kept adds exactly one ObjectNotFound entry to the report.
\* ------------------------------------------------------------------------
C6_PerimeterValidation ==
    [][AtPerimeterRecord =>
          LET exists == IF CurrentPerimeter.object_type = "Network"
                        THEN CurrentPerimeter.object_id \in networks
                        ELSE CurrentPerimeter.object_id \in DOMAIN lines
              kept == local_rows' = Append(local_rows, CurrentPerimeter)
          IN  /\ kept <=> exists
              /\ kept \/ local_rows' = local_rows
              /\ ~kept => /\ Len(report') = Len(report) + 1
                          /\ SubSeq(report', 1, Len(report)) = report
                          /\ report'[Len(report')].category = "ObjectNotFound"]_vars

\* ------------------------------------------------------------------------
\* C7  Fare restriction cross-validation: an OriginDestination restriction
\*     is kept if and only if use_origin and use_destination are both in the
\*     StopArea collection; a rejected one adds exactly one report entry, for
\*     the origin if the origin is missing, otherwise for the destination; a
\*     kept one adds none; a Zone restriction is always kept and adds none.
\* ------------------------------------------------------------------------
C7_RestrictionValidation ==
    [][AtRestrictionRecord =>
          LET r == CurrentRestriction
              kept == local_rows' = Append(local_rows, r)
          IN  /\ SubSeq(report', 1, Len(report)) = report
              /\ kept \/ local_rows' = local_rows
              /\ r.restriction_type = "OriginDestination" =>
                    /\ kept <=> (r.use_origin \in stop_areas
                                 /\ r.use_destination \in stop_areas)
                    /\ kept => report' = report
                    /\ ~kept =>
                          NewEntries =
                              IF r.use_origin \notin stop_areas
                              THEN <<ReportEntry("origin_not_found", "", r.use_origin)>>
                              ELSE <<ReportEntry("destination_not_found", "",
                                                 r.use_destination)>>
              /\ r.restriction_type = "Zone" => kept /\ report' = report]_vars

\* an OriginDestination restriction whose origin and destination are both
\* missing has been rejected with the single entry for its origin, and a Zone
\* restriction after it has been kept
C7_Witness ==
    /\ pc = "ticket_use_restrictions"
    /\ row_pos = 3
    /\ LET rows == archive[RestrictionsFileName].rows
       IN  /\ rows[1].restriction_type = "OriginDestination"
           /\ rows[1].use_origin = "SA9"
           /\ rows[1].use_destination = "SA9"
           /\ rows[2].restriction_type = "Zone"
           /\ local_rows = <<TicketUseRestrictionOf(rows[2])>>
    /\ report = <<ReportEntry("origin_not_found", "", "SA9")>>

\* the rows of a restrictions file that the validation of C7 keeps
KeptRestrictions(rows) ==
    LET Kept(row) ==
            /\ DeserializesAsRestriction(row)
            /\ \/ row.restriction_type = "Zone"
               \/ /\ row.use_origin \in stop_areas
                  /\ row.use_destination \in stop_areas
        kept_rows == SelectSeq(rows, Kept)
    IN  [k \in 1..Len(kept_rows) |-> TicketUseRestrictionOf(kept_rows[k])]

RequiredFiles == {"tickets.txt", "ticket_uses.txt", "ticket_prices.txt",
                  "ticket_use_perimeters.txt"}

\* ------------------------------------------------------------------------
\* C11 Required and optional fare tables: when one of tickets.txt,
\*     ticket_uses.txt, ticket_prices.txt, ticket_use_perimeters.txt is absent
\*     the import never returns Ok and never writes the report; when the four
\*     are present the finished import has returned Ok and its
\*     ticket_use_restrictions collection is what ticket_use_restrictions.txt
\*     alone gives: empty when that file is absent, its validated rows
\*     otherwise.
\* ------------------------------------------------------------------------
C11_RequiredAndOptional ==
    /\ (\E f \in RequiredFiles : ~archive[f].present) =>
          (result # "Ok" /\ ~report_written)
    /\ ((\A f \in RequiredFiles : archive[f].present) /\ pc = "done") =>
          /\ result = "Ok"
          /\ ticket_use_restrictions =
                IF archive["ticket_use_restrictions.txt"].present
                THEN KeptRestrictions(archive["ticket_use_restrictions.txt"].rows)
                ELSE <<>>

\* ------------------------------------------------------------------------
\* Vocabulary of the properties on several rules of one pass
\* ------------------------------------------------------------------------
\* the rules of the category that list the identifier, by position
Listing(cat, S) ==
    IF RulesOf(cat).is_some
    THEN {k \in DOMAIN RulesOf(cat).v : S \in Range(RulesOf(cat).v[k].grouped_from)}
    ELSE {}

\* the first rule of the category that lists the identifier
FirstListing(cat, S) ==
    CHOOSE k \in Listing(cat, S) : \A m \in Listing(cat, S) : k <= m

\* the foreign key of the category as it was when the run began
StartFkOf(cat) ==
    CASE cat = "networks" ->
            [l \in DOMAIN start_of_run.lines |-> start_of_run.lines[l].network_id]
      [] cat = "commercial_modes" ->
            [l \in DOMAIN start_of_run.lines |-> start_of_run.lines[l].commercial_mode_id]
      [] cat = "physical_modes" ->
            [v \in DOMAIN start_of_run.vehicle_journeys |->
                start_of_run.vehicle_journeys[v].physical_mode_id]

\* the dependents that referenced the identifier when the run began
StartDependents(cat, S) == {d \in DOMAIN StartFkOf(cat) : StartFkOf(cat)[d] = S}

\* two rules or more of the category list S, and S was in the collection
\* before the first of them
AbsorbedTwice(cat, S) ==
    /\ S \in StartCollectionOf(cat)
    /\ Cardinality(Listing(cat, S)) >= 2

\* the pass of the category has gone past the rule at position k
Processed(cat, k) ==
    \/ OrderOf(pc) > OrderOf(cat)
    \/ pc = cat /\ rule_pos > k

Occurrences(seq, x) == Cardinality({k \in DOMAIN seq : seq[k] = x})

\* ------------------------------------------------------------------------
\* C12 Duplicate absorption across rules. S is in the collection before the
\*     first of two rules of a category that both list it, and both loop
\*     bodies reach regroup. The first rule sets the foreign key of every
\*     dependent that referenced S to its own target and removes S. A later
\*     rule listing S adds one "identifier to regroup doesn't exist" entry
\*     for each occurrence of S in its list and changes the foreign key of no
\*     dependent of S. From the first rule on, S's dependents hold the first
\*     rule's target and S is not in the collection while the pass runs.
\* ------------------------------------------------------------------------
C12_DuplicateAbsorption ==
    [][\A cat \in Categories :
          \A S \in StartCollectionOf(cat) :
              AbsorbedTwice(cat, S) =>
                  LET first == FirstListing(cat, S)
                      target == RulesOf(cat).v[first].properties.id
                      S_entry == ReportEntry("regroup_missing", "", S)
                  IN  /\ (Regrouping(cat) /\ rule_pos = first) =>
                            /\ S \in CollectionOf(cat)
                            /\ \A d \in StartDependents(cat, S) :
                                  FkOf(cat)'[d] = target
                            /\ S \notin CollectionOf(cat)'
                      /\ (Regrouping(cat) /\ rule_pos \in Listing(cat, S)
                                          /\ rule_pos > first) =>
                            /\ S \notin CollectionOf(cat)
                            /\ Occurrences(NewEntries, S_entry) =
                                  Occurrences(CurrentRule(cat).grouped_from, S)
                            /\ \A d \in StartDependents(cat, S) :
                                  FkOf(cat)'[d] = FkOf(cat)[d]
                      /\ Processed(cat, first)' =>
                            /\ \A d \in StartDependents(cat, S) :
                                  FkOf(cat)'[d] = target
                            /\ pc' = cat => S \notin CollectionOf(cat)']_vars

\* both network rules list N1, which had the line L1: the line is on the first
\* rule's target N3 and the second rule has reported N1 as missing
C12_Witness ==
    /\ run = 1
    /\ pc = "networks"
    /\ result = "none"
    /\ rule_pos = 3
    /\ configuration.networks_rules.v[1].properties.id = "N3"
    /\ configuration.networks_rules.v[1].grouped_from = <<"N1">>
    /\ configuration.networks_rules.v[2].properties.id = "N2"
    /\ configuration.networks_rules.v[2].grouped_from = <<"N1">>
    /\ lines["L1"].network_id = "N3"
    /\ "N1" \notin networks
    /\ report = <<ReportEntry("regroup_missing", "", "N1"),
                  ReportEntry("not_applied", "network", "N2")>>

IdKeyOf(cat) ==
    CASE cat = "networks" -> "network_id"
      [] cat = "commercial_modes" -> "commercial_mode_id"
      [] cat = "physical_modes" -> "physical_mode_id"

\* ------------------------------------------------------------------------
\* C13 A rule with an empty absorption list is never silently applied: the
\*     loop body on a rule whose key is a string and whose grouped_from is
\*     empty adds exactly one "list to group by is empty" entry naming the key
\*     and the target, stages nothing, leaves every collection, every
\*     dependent and every perimeter as it was, and goes on to the next rule.
\* ------------------------------------------------------------------------
C13_EmptyListReported ==
    [][\A cat \in Categories :
          (/\ AtRule(cat)
           /\ ~Malformed(CurrentRule(cat))
           /\ CurrentRule(cat).grouped_from = <<>>) =>
              /\ report' = Append(report,
                                  ReportEntry("empty_list", IdKeyOf(cat),
                                              CurrentRule(cat).properties.id))
              /\ UNCHANGED <<store, new_networks, new_commercial_modes,
                             new_physical_modes, pc>>
              /\ result' = "none"
              /\ rule_pos' = rule_pos + 1]_vars

\* the first commercial-mode rule has an empty list and a target CM2 that is
\* not in the collection: one entry, nothing staged, CM2 still absent
C13_Witness ==
    /\ run = 1
    /\ pc = "commercial_modes"
    /\ result = "none"
    /\ rule_pos = 2
    /\ configuration.commercial_modes_rules.v[1].properties.id = "CM2"
    /\ configuration.commercial_modes_rules.v[1].grouped_from = <<>>
    /\ report = <<ReportEntry("empty_list", "commercial_mode_id", "CM2")>>
    /\ new_commercial_modes = <<>>
    /\ commercial_modes = {"CM1"}

\* the next step is a loop body that runs to its end: no ? operator returns
Processable(cat) ==
    /\ AtRule(cat)
    /\ ~Malformed(CurrentRule(cat))
    /\ \/ CurrentRule(cat).grouped_from = <<>>
       \/ CurrentRule(cat).properties.id \in CollectionOf(cat)
       \/ CurrentRule(cat).properties.deserializable

\* ------------------------------------------------------------------------
\* C14 Unconditional cleanup: right after a loop body that ran to its end,
\*     the collection is what it was less every identifier of the rule's
\*     grouped_from, so none of them is in it: whether the identifier had
\*     dependents or not, whether or not a "rule was not applied" entry was
\*     added, and also when the identifier is the rule's own target.
\* ------------------------------------------------------------------------
C14_Cleanup ==
    [][\A cat \in Categories :
          Processable(cat) =>
              /\ CollectionOf(cat)' =
                    CollectionOf(cat) \ Range(CurrentRule(cat).grouped_from)
              /\ Range(CurrentRule(cat).grouped_from) \cap CollectionOf(cat)' = {}
              /\ rule_pos' = rule_pos + 1]_vars

\* the physical-mode rule PM1 <- [PM1] has been processed: PM1, the rule's own
\* target and the mode of VJ1, is gone, and the rule counted as applied
C14_Witness ==
    /\ run = 1
    /\ pc = "physical_modes"
    /\ result = "none"
    /\ rule_pos = 2
    /\ configuration.physical_modes_rules.v[1].properties.id = "PM1"
    /\ configuration.physical_modes_rules.v[1].grouped_from = <<"PM1">>
    /\ physical_modes = {}
    /\ new_physical_modes = <<>>
    /\ report = <<>>

\* ------------------------------------------------------------------------
\* C15 In a loop body that reaches regroup, exactly one "rule was not applied"
\*     entry is added, last, when no identifier of grouped_from is both in the
\*     collection and a key of the reference index built before the pass, and
\*     none is added otherwise. A rule whose identifiers are all in the
\*     collection and all without dependents gets the entry, its identifiers
\*     are removed and its target, when not in the collection, is staged.
\* ------------------------------------------------------------------------
C15_NotApplied ==
    [][\A cat \in Categories :
          Regrouping(cat) =>
              LET pyr == CurrentRule(cat)
                  id == pyr.properties.id
                  entry == ReportEntry("not_applied", ObjectNameOf(cat), id)
                  effective == {A \in Range(pyr.grouped_from) :
                                   /\ A \in CollectionOf(cat)
                                   /\ A \in DOMAIN ReferenceIndexOf(cat)}
              IN  /\ effective = {} =>
                        /\ Len(EntriesOfKind(NewEntries, "not_applied")) = 1
                        /\ report'[Len(report')] = entry
                  /\ effective # {} => EntriesOfKind(NewEntries, "not_applied") = <<>>
                  /\ (/\ Range(pyr.grouped_from) \subseteq CollectionOf(cat)
                      /\ effective = {}) =>
                        /\ NewEntries = <<entry>>
                        /\ CollectionOf(cat)' =
                              CollectionOf(cat) \ Range(pyr.grouped_from)
                        /\ StagedOf(cat)' = IF id \in CollectionOf(cat)
                                            THEN StagedOf(cat)
                                            ELSE Append(StagedOf(cat), id)]_vars

\* the network N2 exists and has no line: the rule N3 <- [N2] got the "not
\* applied" entry alone, N2 was removed and N3 staged
C15_Witness ==
    /\ run = 1
    /\ pc = "networks"
    /\ result = "none"
    /\ rule_pos = 2
    /\ configuration.networks_rules.v[1].properties.id = "N3"
    /\ configuration.networks_rules.v[1].grouped_from = <<"N2">>
    /\ "N2" \notin DOMAIN lines_by_network.v
    /\ report = <<ReportEntry("not_applied", "network", "N3")>>
    /\ networks = {"N1"}
    /\ new_networks = <<"N3">>

\* the next step is the extend that ends the pass of the category
AtExtend(cat) ==
    /\ result = "none"
    /\ pc = cat
    /\ RulesOf(cat).is_some
    /\ rule_pos \notin DOMAIN RulesOf(cat).v

\* ------------------------------------------------------------------------
\* C16 Deferred insertion of new targets. A loop body that reaches regroup
\*     stages its target exactly when the target is not in the collection,
\*     and no loop body adds anything to the collection: while the pass runs,
\*     no staged target is in the collection. A rule that lists a staged
\*     target gets one "identifier to regroup doesn't exist" entry for each
\*     occurrence of it. The step that ends the pass adds the staged targets,
\*     and nothing else, to the collection, so that each is in it then.
\* ------------------------------------------------------------------------
C16_DeferredInsertion ==
    [][\A cat \in Categories :
          /\ Regrouping(cat) =>
                LET pyr == CurrentRule(cat)
                    id == pyr.properties.id
                IN  /\ StagedOf(cat)' = IF id \in CollectionOf(cat)
                                        THEN StagedOf(cat)
                                        ELSE Append(StagedOf(cat), id)
                    /\ \A T \in Range(StagedOf(cat)) \cap Range(pyr.grouped_from) :
                          Occurrences(NewEntries,
                                      ReportEntry("regroup_missing", "", T))
                              = Occurrences(pyr.grouped_from, T)
          /\ AtRule(cat) => CollectionOf(cat)' \subseteq CollectionOf(cat)
          /\ pc' = cat => Range(StagedOf(cat)') \cap CollectionOf(cat)' = {}
          /\ AtExtend(cat) =>
                /\ CollectionOf(cat)' = CollectionOf(cat) \cup Range(StagedOf(cat))
                /\ Range(StagedOf(cat)') \subseteq CollectionOf(cat)'
                /\ pc' # cat]_vars

\* the network rules N3 <- [N1] and N2 <- [N3]: the second rule found the
\* staged N3 missing, and N3 is in the collection now that the pass has ended
C16_Witness ==
    /\ run = 1
    /\ pc = "commercial_modes"
    /\ result = "none"
    /\ configuration.networks_rules.is_some
    /\ Len(configuration.networks_rules.v) = 2
    /\ configuration.networks_rules.v[1].properties.id = "N3"
    /\ configuration.networks_rules.v[1].grouped_from = <<"N1">>
    /\ configuration.networks_rules.v[2].properties.id = "N2"
    /\ configuration.networks_rules.v[2].grouped_from = <<"N3">>
    /\ new_networks = <<"N3">>
    /\ networks = {"N2", "N3"}
    /\ report = <<ReportEntry("regroup_missing", "", "N3"),
                  ReportEntry("not_applied", "network", "N2")>>

\* every identifier listed by some rule of the category
AllListed(cat) ==
    IF RulesOf(cat).is_some
    THEN UNION {Range(RulesOf(cat).v[k].grouped_from) : k \in DOMAIN RulesOf(cat).v}
    ELSE {}

\* ------------------------------------------------------------------------
\* C17 Frame of consolidation. No step of apply_rules adds or removes a Line,
\*     a VehicleJourney or a TicketUsePerimeter. A step changes the collection
\*     and the foreign key of a category only during that category's pass; a
\*     perimeter changes only in the network pass, only in its object_id, only
\*     when it is Network-typed and its object_id is in the current rule's
\*     list. A foreign key changes only in a loop body whose list holds its
\*     value, and a dependent whose foreign key at the start of the run is in
\*     no list of the category keeps it.
\* ------------------------------------------------------------------------
C17_Frame ==
    [][/\ DOMAIN lines' = DOMAIN lines
       /\ DOMAIN vehicle_journeys' = DOMAIN vehicle_journeys
       /\ Len(ticket_use_perimeters') = Len(ticket_use_perimeters)
       /\ \A i \in DOMAIN ticket_use_perimeters :
             /\ ticket_use_perimeters'[i].ticket_use_id
                   = ticket_use_perimeters[i].ticket_use_id
             /\ ticket_use_perimeters'[i].object_type
                   = ticket_use_perimeters[i].object_type
             /\ ticket_use_perimeters'[i] # ticket_use_perimeters[i] =>
                   /\ AtRule("networks")
                   /\ ticket_use_perimeters[i].object_type = "Network"
                   /\ ticket_use_perimeters[i].object_id
                         \in Range(CurrentRule("networks").grouped_from)
       /\ \A cat \in Categories :
             /\ pc # cat => /\ CollectionOf(cat)' = CollectionOf(cat)
                            /\ FkOf(cat)' = FkOf(cat)
             /\ \A d \in DOMAIN FkOf(cat) :
                   /\ FkOf(cat)'[d] # FkOf(cat)[d] =>
                         /\ AtRule(cat)
                         /\ FkOf(cat)[d] \in Range(CurrentRule(cat).grouped_from)
                   /\ StartFkOf(cat)[d] \notin AllListed(cat) =>
                         FkOf(cat)'[d] = StartFkOf(cat)[d]]_vars

\* the network rule N3 <- [N1] has moved L1 to N3; L2, on N2, the perimeter
\* of N2 and the Line-typed perimeter are as they were
C17_Witness ==
    /\ run = 1
    /\ pc = "networks"
    /\ result = "none"
    /\ rule_pos = 2
    /\ configuration.networks_rules.v[1].properties.id = "N3"
    /\ configuration.networks_rules.v[1].grouped_from = <<"N1">>
    /\ start_of_run.lines["L2"].network_id = "N2"
    /\ lines["L1"] = [network_id |-> "N3", commercial_mode_id |-> "CM1"]
    /\ lines["L2"] = start_of_run.lines["L2"]
    /\ ticket_use_perimeters = start_of_run.ticket_use_perimeters
    /\ vehicle_journeys = start_of_run.vehicle_journeys
    /\ networks = {"N2"}

TypeOK ==
    /\ networks \subseteq NetworkIds
    /\ commercial_modes \subseteq CommercialModeIds
    /\ physical_modes \subseteq PhysicalModeIds
    /\ pc \in {"new", "networks", "commercial_modes", "physical_modes", "done",
              "tickets", "ticket_uses", "ticket_prices", "ticket_use_perimeters",
              "ticket_use_restrictions", "sanitize_tickets", "write_report"}
    /\ result \in {"none", "Ok", "Err"}
    /\ run \in 1..2
====
